---- MODULE Spec2Model ----
(***************************************************************************)
(* Model of evo.data_converters.common.objects: DownholeCollection         *)
(* (downhole_collection.py) and AttributeFactory (attributes.py).          *)
(*                                                                         *)
(* Numbers are integers.  Angles are multiples of 90 degrees, where the    *)
(* sine and cosine are -1, 0 or 1, so every product the code forms is an   *)
(* integer; the floating point rounding of numpy (cos(deg2rad(90)) is      *)
(* 6.1e-17, not 0) is not modelled.  A missing value (NaN / None) is the   *)
(* empty tuple <<>>, a present value v is <<v>>.                           *)
(***************************************************************************)
EXTENDS Integers, Sequences, FiniteSets, TLC

VARIABLES
    collars,        \* self.collars.df: rows [hole_index, x, y, z]
    measurements,   \* self.measurements: list of adapters
    constructed,    \* ghost: the adapters stored by __init__
    added,          \* ghost: the adapters of later successful adds
    call,           \* the last public call and its arguments
    returned,       \* the list the last get_measurement_tables returned
    returnedAlias,  \* TRUE when that list is the stored list object itself
    raised,         \* the exception the last call raised, "none" otherwise
    result,         \* the value the last get_bounding_box returned
    bboxes,         \* the list of boxes handed to _combine_bounding_boxes
    collar,         \* input of _compute_hole_bounding_box: [x, y, z]
    survey,         \* input: rows [depth, dip, azimuth] of one hole
    bbox,           \* output of _compute_hole_bounding_box
    combined,       \* output of _combine_bounding_boxes
    series,         \* input of AttributeFactory.create
    saved,          \* tables the client persisted (client.save_table)
    attribute       \* output of AttributeFactory.create

vars == <<collars, measurements, constructed, added, call, returned,
          returnedAlias, raised, result, bboxes, collar, survey, bbox,
          combined, series, saved, attribute>>

collectionVars == <<collars, measurements, constructed, added, call,
                    returned, returnedAlias, raised, result>>
holeVars == <<collar, survey, bbox>>
combineVars == <<combined>>
attrVars == <<series, saved, attribute>>

----------------------------------------------------------------------------
(* Bounds *)

MaxTables == 2      \* measurement tables in one collection
MaxSurvey == 2      \* survey rows of one hole given to the integration
MaxBoxes == 3       \* boxes in one list given to the combination
MaxFilter == 2      \* classes in one filter list
MaxInitial == 1     \* measurement tables given to the constructor
MaxLen == 1         \* values in one column given to the attribute factory
MaxSaves == 2       \* tables one client persists

----------------------------------------------------------------------------
(* Generic helpers *)

SeqsUpTo(S, n) == UNION {[1..k -> S] : k \in 0..n}

Missing == <<>>
Some(v) == <<v>>
IsMissing(o) == o = <<>>
Val(o) == o[1]

RECURSIVE SeqMin(_)
SeqMin(s) ==
    IF Len(s) = 1 THEN s[1]
    ELSE LET m == SeqMin(Tail(s)) IN IF s[1] < m THEN s[1] ELSE m

RECURSIVE SeqMax(_)
SeqMax(s) ==
    IF Len(s) = 1 THEN s[1]
    ELSE LET m == SeqMax(Tail(s)) IN IF s[1] > m THEN s[1] ELSE m

RECURSIVE CumSum(_)
\* np.cumsum: the running sums of a sequence
CumSum(s) ==
    IF s = <<>> THEN <<>>
    ELSE LET n == Len(s)
             p == CumSum(SubSeq(s, 1, n - 1))
         IN Append(p, (IF n = 1 THEN 0 ELSE p[n - 1]) + s[n])

\* np.sin(np.deg2rad(a)) and np.cos(np.deg2rad(a)) at multiples of 90 degrees
SinDeg(a) == CASE a = 0 -> 0 [] a = 90 -> 1 [] a = 180 -> 0 [] a = 270 -> -1
CosDeg(a) == CASE a = 0 -> 1 [] a = 90 -> 0 [] a = 180 -> -1 [] a = 270 -> 0

----------------------------------------------------------------------------
(* DownholeCollection._compute_hole_bounding_box *)

RowComplete(r) ==
    ~IsMissing(r.depth) /\ ~IsMissing(r.dip) /\ ~IsMissing(r.azimuth)

\* as DropNa, but a missing value is read as zero (fillna(0))
DropNa_fillzero(rows) ==
    LET Z(o) == IF IsMissing(o) THEN Some(0) ELSE o
    IN [i \in 1..Len(rows) |->
           [depth |-> Z(rows[i].depth), dip |-> Z(rows[i].dip),
            azimuth |-> Z(rows[i].azimuth)]]

\* DataFrame.dropna(subset=["depth", "dip", "azimuth"])
DropNa(rows) == SelectSeq(rows, RowComplete)

RECURSIVE InsertByDepth(_, _)
\* insert r after every row whose depth is not larger (stable)
InsertByDepth(sorted, r) ==
    IF sorted = <<>> THEN <<r>>
    ELSE IF Val(r.depth) < Val(sorted[1].depth) THEN <<r>> \o sorted
    ELSE <<sorted[1]>> \o InsertByDepth(Tail(sorted), r)

\* as SortByDepth, but the rows stay in input order
SortByDepth_none(rows) == rows

RECURSIVE SortByDepth(_)
\* df.sort_values("depth").reset_index(drop=True); numpy sorts arrays of
\* this size by insertion, which keeps rows of equal depth in input order
\* (the sort reads the depth column only, so whatever it does with equal
\* depths, exchanging two such rows in the input exchanges them in the output)
SortByDepth(rows) ==
    IF rows = <<>> THEN <<>>
    ELSE InsertByDepth(SortByDepth(SubSeq(rows, 1, Len(rows) - 1)),
                       rows[Len(rows)])

\* as StepLengths, but every step is the depth itself, not the difference
StepLengths_nodiff(df) == [i \in 1..Len(df) |-> Val(df[i].depth)]

\* np.diff(depth_vals, prepend=0.0)
StepLengths(df) ==
    [i \in 1..Len(df) |->
        Val(df[i].depth) - (IF i = 1 THEN 0 ELSE Val(df[i - 1].depth))]

\* horiz = step * np.sin(dip_rad); dz_down = step * np.cos(dip_rad)
Horizontal(step, dip) == step * SinDeg(dip)
VerticalDown(step, dip) == step * CosDeg(dip)

\* dN = horiz * np.cos(az_rad)
North(horiz, az) == horiz * CosDeg(az)

\* as East, but with the azimuth read from East instead of North
East_from_cos(horiz, az) == horiz * CosDeg(az)

\* dE = horiz * np.sin(az_rad)
East(horiz, az) == horiz * SinDeg(az)

compute_hole_bounding_box(collar_x, collar_y, collar_z, rows) ==
    LET df == SortByDepth(DropNa(rows))
        step == StepLengths(df)
        horiz == [i \in 1..Len(df) |-> Horizontal(step[i], Val(df[i].dip))]
        dz_down == [i \in 1..Len(df) |-> VerticalDown(step[i], Val(df[i].dip))]
        dN == [i \in 1..Len(df) |-> North(horiz[i], Val(df[i].azimuth))]
        dE == [i \in 1..Len(df) |-> East(horiz[i], Val(df[i].azimuth))]
        dX == dE
        dY == dN
        dZ == [i \in 1..Len(df) |-> 0 - dz_down[i]]
        cx == CumSum(dX)
        cy == CumSum(dY)
        cz == CumSum(dZ)
        xs == <<collar_x>> \o [i \in 1..Len(df) |-> collar_x + cx[i]]
        ys == <<collar_y>> \o [i \in 1..Len(df) |-> collar_y + cy[i]]
        zs == <<collar_z>> \o [i \in 1..Len(df) |-> collar_z + cz[i]]
    IN [xmin |-> SeqMin(xs), xmax |-> SeqMax(xs),
        ymin |-> SeqMin(ys), ymax |-> SeqMax(ys),
        zmin |-> SeqMin(zs), zmax |-> SeqMax(zs)]

----------------------------------------------------------------------------
(* DownholeCollection._combine_bounding_boxes *)

Returns(v) == [raised |-> "none", value |-> v]
Raises(e) == [raised |-> e, value |-> <<>>]

\* as combine_bounding_boxes, but xmin is taken from the first box only
combine_bounding_boxes_first(bs) ==
    IF bs = <<>> THEN Raises("ValueError")
    ELSE Returns(<<bs[1].xmin,
                   SeqMax([i \in 1..Len(bs) |-> bs[i].xmax]),
                   SeqMin([i \in 1..Len(bs) |-> bs[i].ymin]),
                   SeqMax([i \in 1..Len(bs) |-> bs[i].ymax]),
                   SeqMin([i \in 1..Len(bs) |-> bs[i].zmin]),
                   SeqMax([i \in 1..Len(bs) |-> bs[i].zmax])>>)

combine_bounding_boxes(bs) ==
    IF bs = <<>> THEN Raises("ValueError")
    ELSE Returns(<<SeqMin([i \in 1..Len(bs) |-> bs[i].xmin]),
                   SeqMax([i \in 1..Len(bs) |-> bs[i].xmax]),
                   SeqMin([i \in 1..Len(bs) |-> bs[i].ymin]),
                   SeqMax([i \in 1..Len(bs) |-> bs[i].ymax]),
                   SeqMin([i \in 1..Len(bs) |-> bs[i].zmin]),
                   SeqMax([i \in 1..Len(bs) |-> bs[i].zmax])>>)

----------------------------------------------------------------------------
(* Measurement tables: tables.py and column_mapping.py are not among the    *)
(* sources; the adapters, the factory and the mapping follow sections 3,    *)
(* 4.1 and 4.2 of the specification.                                        *)

Classes == {"MeasurementTableAdapter", "DistanceTable", "IntervalTable"}

\* isinstance(m, cls): both variants derive from MeasurementTableAdapter
IsInstance(m, cls) == cls = m.kind \/ cls = "MeasurementTableAdapter"

\* ColumnMapping(): the default column names
DefaultColumnMapping == [depth |-> "depth", top |-> "top", base |-> "base"]

\* MeasurementTableFactory.create(df, mapping)
MeasurementTableFactory_create(df, mapping) ==
    IF {mapping.top, mapping.base} \subseteq df.columns
    THEN [raised |-> "none",
          adapter |-> [kind |-> "IntervalTable", rows |-> df.rows]]
    ELSE IF mapping.depth \in df.columns
    THEN [raised |-> "none",
          adapter |-> [kind |-> "DistanceTable", rows |-> df.rows]]
    ELSE [raised |-> "ConfigurationError",
          adapter |-> [kind |-> "none", rows |-> <<>>]]

\* get_depth_values / get_dip_values / get_azimuth_values with
\* filter_to_hole_index: the rows of one hole, in row order
HoleRows(mt, hole_index) ==
    LET own == SelectSeq(mt.rows, LAMBDA r : r.hole_index = hole_index)
    IN [i \in 1..Len(own) |->
           [depth |-> own[i].depth, dip |-> own[i].dip,
            azimuth |-> own[i].azimuth]]

----------------------------------------------------------------------------
(* DownholeCollection *)

\* column_mapping or ColumnMapping(): None is <<>>, a mapping m is <<m>>
MappingOrDefault(column_mapping) ==
    IF column_mapping = <<>> THEN DefaultColumnMapping ELSE column_mapping[1]

\* as add_measurement_table, but the list grows before the input is converted
add_measurement_table_append_first(ms, input, column_mapping) ==
    IF input.isDataFrame
    THEN LET made == MeasurementTableFactory_create(
                         input, MappingOrDefault(column_mapping))
         IN [raised |-> made.raised,
             measurements |-> Append(ms, made.adapter)]
    ELSE [raised |-> "none",
          measurements |-> Append(ms, [kind |-> input.kind,
                                       rows |-> input.rows])]

add_measurement_table(ms, input, column_mapping) ==
    IF input.isDataFrame
    THEN LET made == MeasurementTableFactory_create(
                         input, MappingOrDefault(column_mapping))
         IN IF made.raised # "none"
            THEN [raised |-> made.raised, measurements |-> ms]
            ELSE [raised |-> "none",
                  measurements |-> Append(ms, made.adapter)]
    ELSE [raised |-> "none",
          measurements |-> Append(ms, [kind |-> input.kind,
                                       rows |-> input.rows])]

RECURSIVE FilterLoop_reversed(_, _)
\* as FilterLoop, but every match is put in front of the earlier ones
FilterLoop_reversed(ms, classes) ==
    IF ms = <<>> THEN <<>>
    ELSE LET rest == FilterLoop_reversed(SubSeq(ms, 1, Len(ms) - 1), classes)
             m == ms[Len(ms)]
         IN IF \E i \in 1..Len(classes) : IsInstance(m, classes[i])
            THEN <<m>> \o rest ELSE rest

RECURSIVE FilterLoop(_, _)
\* for m in self.measurements: if any(isinstance(m, cls) ...): append
FilterLoop(ms, classes) ==
    IF ms = <<>> THEN <<>>
    ELSE LET rest == FilterLoop(SubSeq(ms, 1, Len(ms) - 1), classes)
             m == ms[Len(ms)]
         IN IF \E i \in 1..Len(classes) : IsInstance(m, classes[i])
            THEN Append(rest, m) ELSE rest

\* as get_measurement_tables, but without the copy of the unfiltered list
get_measurement_tables_nocopy(ms, filter) ==
    IF filter = <<>>
    THEN [list |-> ms, alias |-> TRUE]
    ELSE [list |-> FilterLoop(ms, filter[1]), alias |-> FALSE]

\* filter None is <<>>, a list of classes c is <<c>>; alias tells whether
\* the returned list is the stored list object
get_measurement_tables(ms, filter) ==
    IF filter = <<>>
    THEN [list |-> ms, alias |-> FALSE]
    ELSE [list |-> FilterLoop(ms, filter[1]), alias |-> FALSE]

RECURSIVE HoleBoxes_skip(_, _)
\* as HoleBoxes, but a hole without a complete row gets no box
HoleBoxes_skip(mt, cs) ==
    IF cs = <<>> THEN <<>>
    ELSE LET rest == HoleBoxes_skip(mt, SubSeq(cs, 1, Len(cs) - 1))
             c == cs[Len(cs)]
             rows == HoleRows(mt, c.hole_index)
         IN IF DropNa(rows) = <<>> THEN rest
            ELSE Append(rest, compute_hole_bounding_box(c.x, c.y, c.z, rows))

HoleBoxes(mt, cs) ==
    [j \in 1..Len(cs) |->
        compute_hole_bounding_box(cs[j].x, cs[j].y, cs[j].z,
                                  HoleRows(mt, cs[j].hole_index))]

RECURSIVE AllBoxes(_, _)
\* the two nested loops of get_bounding_box: tables outside, collars inside
AllBoxes(tables, cs) ==
    IF tables = <<>> THEN <<>>
    ELSE HoleBoxes(tables[1], cs) \o AllBoxes(Tail(tables), cs)

BoundingBoxInputs(cs, ms) ==
    AllBoxes(get_measurement_tables(ms, << <<"DistanceTable">> >>).list, cs)

\* as get_bounding_box, but without the test for an empty list of boxes
get_bounding_box_unguarded(cs, ms) ==
    combine_bounding_boxes(BoundingBoxInputs(cs, ms))

get_bounding_box(cs, ms) ==
    LET bs == BoundingBoxInputs(cs, ms)
    IN IF bs # <<>> THEN combine_bounding_boxes(bs) ELSE Returns(<<>>)

----------------------------------------------------------------------------
(* Inputs of the collection *)

Hole0 == [hole_index |-> 0, x |-> 0, y |-> 0, z |-> 100]
Hole1 == [hole_index |-> 1, x |-> 20, y |-> -5, z |-> 50]
CollarChoices == {<<>>, <<Hole0, Hole1>>}

\* the row contents of a measurement table: one station of hole 0 with the
\* dip missing; one complete station of hole 0 (horizontal, due
\* East); a complete vertical station of hole 1 before an incomplete one
\* of hole 0
Station(h, depth, dip, azimuth) ==
    [hole_index |-> h, depth |-> depth, dip |-> dip, azimuth |-> azimuth]
TableBodies ==
    {<<Station(0, Some(10), Missing, Some(90))>>,
     <<Station(0, Some(10), Some(90), Some(90))>>,
     <<Station(1, Some(20), Some(0), Some(0)),
       Station(0, Some(10), Missing, Some(90))>>}

ColumnSets ==
    {{"hole_index", "depth", "dip", "azimuth"},
     {"hole_index", "top", "base", "dip", "azimuth"},
     {"hole_index", "value"}}

AgsColumnMapping ==
    [depth |-> "SCPT_DPTH", top |-> "SCPP_TOP", base |-> "SCPP_BASE"]
MappingArgs == {<<>>, <<AgsColumnMapping>>}

AdapterInputs ==
    [isDataFrame : {FALSE}, kind : {"DistanceTable", "IntervalTable"},
     columns : {{}}, rows : TableBodies]
DataFrameInputs ==
    [isDataFrame : {TRUE}, kind : {"DataFrame"},
     columns : ColumnSets, rows : TableBodies]
Inputs == AdapterInputs \cup DataFrameInputs

FilterArgs == {<<>>} \cup {<<c>> : c \in SeqsUpTo(Classes, MaxFilter)}

\* an adapter a caller puts into a list it was handed
ForeignAdapter == [kind |-> "DistanceTable", rows |-> <<>>]

NoCall(op) ==
    [op |-> op, filter |-> <<>>, isDataFrame |-> FALSE, columns |-> {},
     mapping |-> <<>>]

IdleHole == /\ collar = [x |-> 0, y |-> 0, z |-> 0]
            /\ survey = <<>>
            /\ bbox = <<>>
IdleCombine == combined = <<>>
IdleAttr == /\ series = <<>>
            /\ saved = <<>>
            /\ attribute = <<>>
IdleCollection ==
    /\ collars = <<>>
    /\ measurements = <<>>
    /\ constructed = <<>>
    /\ added = <<>>
    /\ call = NoCall("init")
    /\ returned = <<>>
    /\ returnedAlias = FALSE
    /\ raised = "none"
    /\ result = Returns(<<>>)

----------------------------------------------------------------------------
(* The collection as a state machine *)

RECURSIVE Construct(_, _)
\* __init__: add every given measurement in turn; an add that raises
\* aborts the construction
Construct(ins, column_mapping) ==
    IF ins = <<>> THEN [raised |-> "none", measurements |-> <<>>]
    ELSE LET before == Construct(SubSeq(ins, 1, Len(ins) - 1), column_mapping)
         IN IF before.raised # "none" THEN before
            ELSE add_measurement_table(before.measurements, ins[Len(ins)],
                                       column_mapping)

Init ==
    /\ collars \in CollarChoices
    /\ \E ins \in SeqsUpTo(Inputs, MaxInitial), cm \in MappingArgs :
          LET made == Construct(ins, cm)
          IN /\ made.raised = "none"
             /\ measurements = made.measurements
    /\ constructed = measurements
    /\ added = <<>>
    /\ call = NoCall("init")
    /\ returned = <<>>
    /\ returnedAlias = FALSE
    /\ raised = "none"
    /\ result = Returns(<<>>)
    /\ bboxes = <<>>
    /\ IdleHole /\ IdleCombine /\ IdleAttr

AddMeasurementTable ==
    \E input \in Inputs, cm \in MappingArgs :
        LET done == add_measurement_table(measurements, input, cm)
        IN /\ done.raised # "none" \/ Len(measurements) < MaxTables
           /\ measurements' = done.measurements
           /\ raised' = done.raised
           /\ added' = IF done.raised = "none"
                       THEN Append(added, done.measurements[Len(done.measurements)])
                       ELSE added
           /\ call' = [op |-> "add", filter |-> <<>>,
                       isDataFrame |-> input.isDataFrame,
                       columns |-> input.columns, mapping |-> cm]
           /\ returned' = <<>>          \* the caller keeps no earlier list
           /\ returnedAlias' = FALSE
           /\ result' = Returns(<<>>)
           /\ bboxes' = <<>>
           /\ UNCHANGED <<collars, constructed>>
           /\ UNCHANGED <<holeVars, combineVars, attrVars>>

GetMeasurementTables ==
    \E filter \in FilterArgs :
        LET got == get_measurement_tables(measurements, filter)
        IN /\ returned' = got.list
           /\ returnedAlias' = got.alias
           /\ call' = [NoCall("get") EXCEPT !.filter = filter]
           /\ raised' = "none"
           /\ result' = Returns(<<>>)
           /\ bboxes' = <<>>
           /\ UNCHANGED <<collars, measurements, constructed, added>>
           /\ UNCHANGED <<holeVars, combineVars, attrVars>>

Reverse(s) == [i \in 1..Len(s) |-> s[Len(s) + 1 - i]]

\* the caller changes the list it was handed; the stored list follows only
\* if it is the same object
MutateReturned ==
    /\ call.op = "get"
    /\ \E changed \in {Append(returned, ForeignAdapter), Reverse(returned),
                       SubSeq(returned, 2, Len(returned))} :
          /\ changed # returned
          /\ returned' = changed
          /\ measurements' = IF returnedAlias THEN changed ELSE measurements
    /\ call' = NoCall("mutate")
    /\ raised' = "none"
    /\ result' = Returns(<<>>)
    /\ bboxes' = <<>>
    /\ UNCHANGED <<collars, constructed, added, returnedAlias>>
    /\ UNCHANGED <<holeVars, combineVars, attrVars>>

GetBoundingBox ==
    LET got == get_bounding_box(collars, measurements)
    IN /\ result' = got
       /\ raised' = got.raised
       /\ bboxes' = BoundingBoxInputs(collars, measurements)
       /\ call' = NoCall("bbox")
       /\ returned' = <<>>
       /\ returnedAlias' = FALSE
       /\ UNCHANGED <<collars, measurements, constructed, added>>
       /\ UNCHANGED <<holeVars, combineVars, attrVars>>

Next ==
    \/ AddMeasurementTable
    \/ GetMeasurementTables
    \/ MutateReturned
    \/ GetBoundingBox

Spec == Init /\ [][Next]_vars

----------------------------------------------------------------------------
(* _compute_hole_bounding_box applied to one hole: the collar and the      *)
(* survey rows are drawn from bounded sets, the step applies the function.  *)

SurveyCollars == {[x |-> 0, y |-> 0, z |-> 100], [x |-> 20, y |-> -5, z |-> 0]}
SurveyRows ==
    [depth : {Missing, Some(5), Some(10), Some(15)},
     dip : {Missing, Some(0), Some(90)},
     azimuth : {Missing, Some(0), Some(270)}]

HoleInit ==
    /\ collar \in SurveyCollars
    /\ survey \in SeqsUpTo(SurveyRows, MaxSurvey)
    /\ bbox = <<>>
    /\ bboxes = <<>>
    /\ IdleCollection /\ IdleCombine /\ IdleAttr

ComputeHoleBoundingBox ==
    /\ bbox = <<>>
    /\ bbox' = <<compute_hole_bounding_box(collar.x, collar.y, collar.z,
                                           survey)>>
    /\ UNCHANGED <<collar, survey, bboxes>>
    /\ UNCHANGED <<collectionVars, combineVars, attrVars>>

HoleNext == ComputeHoleBoundingBox

HoleSpec == HoleInit /\ [][HoleNext]_vars

----------------------------------------------------------------------------
(* _combine_bounding_boxes applied to one list of boxes *)

Box(x, y, z) ==
    [xmin |-> x[1], xmax |-> x[2], ymin |-> y[1], ymax |-> y[2],
     zmin |-> z[1], zmax |-> z[2]]
BoxChoices ==
    {Box(x, y, z) : x \in {<<0, 1>>, <<1, 1>>},
                    y \in {<<0, 0>>, <<-1, 0>>},
                    z \in {<<0, 0>>, <<1, 2>>}}

CombineInit ==
    /\ bboxes \in SeqsUpTo(BoxChoices, MaxBoxes)
    /\ combined = <<>>
    /\ IdleCollection /\ IdleHole /\ IdleAttr

CombineBoundingBoxes ==
    /\ combined = <<>>
    /\ combined' = <<combine_bounding_boxes(bboxes)>>
    /\ UNCHANGED bboxes
    /\ UNCHANGED <<collectionVars, holeVars, attrVars>>

CombineNext == CombineBoundingBoxes

CombineSpec == CombineInit /\ [][CombineNext]_vars

----------------------------------------------------------------------------
(* AttributeFactory.create (attributes.py) *)

FloatDtypes == {"float64", "float32"}
Dtypes == FloatDtypes \cup {"int64", "object"}

\* as is_float_dtype, but true of every numeric dtype (is_numeric_dtype)
is_float_dtype_numeric(s) == s.dtype \in {"float64", "float32", "int64"}

\* pd.api.types.is_float_dtype(series)
is_float_dtype(s) == s.dtype \in FloatDtypes

\* PyArrowTableFactory.create_continuous_table: one float64 column "data"
create_continuous_table(s) ==
    [columns |-> <<"data">>, type |-> "float64", data |-> s.data]

\* client.save_table(table): the description of the persisted table
save_table(stored, table) ==
    [data |-> Len(stored) + 1, length |-> Len(table.data),
     width |-> Len(table.columns), data_type |-> table.type]

\* series.attrs holds "nan_values" (<<list>>) or does not (<<>>)
AttributeFactory_create(name, s, stored) ==
    LET nan_values_list == IF s.nan_values # <<>> THEN s.nan_values[1] ELSE <<>>
    IN IF is_float_dtype(s)
       THEN LET table == create_continuous_table(s)
                table_info == save_table(stored, table)
            IN [saved |-> Append(stored, table),
                attribute |-> [kind |-> "ContinuousAttribute",
                               key |-> name, name |-> name,
                               nan_description |-> nan_values_list,
                               values |-> table_info]]
       ELSE [saved |-> stored, attribute |-> [kind |-> "None"]]

ColumnNames == {"coneResistance", "remarks"}
ColumnData(dtype) ==
    SeqsUpTo(IF dtype \in {"float64", "float32", "object"}
             THEN {Some(1), Missing} ELSE {Some(1)}, MaxLen)
NanValueAttrs == {<<>>, << <<>> >>, << <<-999>> >>, << <<-999, -9999>> >>}
SeriesChoices ==
    UNION {[dtype : {d}, data : ColumnData(d), nan_values : NanValueAttrs] :
              d \in Dtypes}

AttrInit ==
    /\ series = <<>>
    /\ saved = <<>>
    /\ attribute = <<>>
    /\ bboxes = <<>>
    /\ IdleCollection /\ IdleHole /\ IdleCombine

CreateAttribute ==
    \E name \in ColumnNames, s \in SeriesChoices :
        LET made == AttributeFactory_create(name, s, saved)
        IN /\ Len(made.saved) <= MaxSaves
           /\ series' = <<[name |-> name, column |-> s]>>
           /\ saved' = made.saved
           /\ attribute' = <<made.attribute>>
           /\ UNCHANGED bboxes
           /\ UNCHANGED <<collectionVars, holeVars, combineVars>>

AttrNext == CreateAttribute

AttrSpec == AttrInit /\ [][AttrNext]_vars

----------------------------------------------------------------------------
(* Properties of the collection (specification Spec) *)

IsDistance(m) == m.kind = "DistanceTable"
DistanceTables == SelectSeq(measurements, IsDistance)

\* no (distance table, hole) pair exists: nothing is integrated
NoBoxProduced ==
    \/ collars = <<>>
    \/ \A i \in 1..Len(measurements) : measurements[i].kind # "DistanceTable"

HasValidRow(mt, hole_index) ==
    \E i \in 1..Len(mt.rows) :
        /\ mt.rows[i].hole_index = hole_index
        /\ mt.rows[i].depth # Missing
        /\ mt.rows[i].dip # Missing
        /\ mt.rows[i].azimuth # Missing

ValidPairs ==
    {<<t, j>> \in (1..Len(DistanceTables)) \X (1..Len(collars)) :
        HasValidRow(DistanceTables[t], collars[j].hole_index)}

CollarOnlyBox(c) ==
    [xmin |-> c.x, xmax |-> c.x, ymin |-> c.y, ymax |-> c.y,
     zmin |-> c.z, zmax |-> c.z]

SetMin(S) == CHOOSE v \in S : \A w \in S : v <= w
SetMax(S) == CHOOSE v \in S : \A w \in S : v >= w

\* the box around the collar positions alone
CollarsExtent ==
    LET xs == {collars[j].x : j \in 1..Len(collars)}
        ys == {collars[j].y : j \in 1..Len(collars)}
        zs == {collars[j].z : j \in 1..Len(collars)}
    IN <<SetMin(xs), SetMax(xs), SetMin(ys), SetMax(ys),
         SetMin(zs), SetMax(zs)>>

\* C2 as stated: a (distance table, hole) pair without a complete row
\* contributes no box, so with no complete row anywhere the result is empty.
C2_NoEntryWithoutValidRows ==
    call.op = "bbox" =>
        /\ Len(bboxes) = Cardinality(ValidPairs)
        /\ ValidPairs = {} => result.value = <<>>

\* C2 amended: every (distance table, hole) pair contributes one box; a pair
\* without a complete row contributes the degenerate box of its collar, so
\* with no complete row anywhere the result is the extent of the collars.
C2_CollarOnlyBoxWithoutValidRows ==
    call.op = "bbox" =>
        /\ Len(bboxes) = Len(DistanceTables) * Len(collars)
        /\ \A t \in 1..Len(DistanceTables), j \in 1..Len(collars) :
              ~HasValidRow(DistanceTables[t], collars[j].hole_index) =>
                  bboxes[(t - 1) * Len(collars) + j] = CollarOnlyBox(collars[j])
        /\ (ValidPairs = {} /\ ~NoBoxProduced) => result.value = CollarsExtent

C2_Witness ==
    /\ call.op = "bbox"
    /\ Len(collars) = 2
    /\ ~NoBoxProduced
    /\ ValidPairs = {}
    /\ result.value = <<0, 20, -5, 0, 50, 100>>

\* C3: with a filter list, get_measurement_tables returns exactly the stored
\* adapters that are instances of a listed class, in insertion order;
\* [DistanceTable] excludes every IntervalTable; the result is a list.
C3_FilterKeepsOrder ==
    (call.op = "get" /\ call.filter # <<>>) =>
        LET classes == {call.filter[1][i] : i \in 1..Len(call.filter[1])}
            Listed(m) == m.kind \in classes
                            \/ "MeasurementTableAdapter" \in classes
        IN /\ returned = SelectSeq(measurements, Listed)
           /\ classes = {"DistanceTable"} =>
                 \A i \in 1..Len(returned) : returned[i].kind # "IntervalTable"
           /\ raised = "none"

C3_Witness ==
    /\ call.op = "get"
    /\ call.filter = << <<"DistanceTable">> >>
    /\ Len(measurements) = 2
    /\ measurements[1].kind = "IntervalTable"
    /\ Len(returned) = 1

\* C8: the stored list changes only by a successful add_measurement_table,
\* which appends one adapter; the queries and a change of a returned list
\* leave it alone; an unfiltered get_measurement_tables returns the M
\* constructed and k added adapters in order, as a list of its own.
C8_GrowsOnlyByAdd ==
    [][/\ measurements' # measurements =>
            /\ call'.op = "add"
            /\ raised' = "none"
            /\ Len(measurements') = Len(measurements) + 1
            /\ SubSeq(measurements', 1, Len(measurements)) = measurements
       /\ (call'.op = "add" /\ raised' = "none") =>
            Len(measurements') = Len(measurements) + 1
       /\ measurements' = constructed' \o added'
       /\ (call'.op = "get" /\ call'.filter = <<>>) =>
            /\ returned' = constructed \o added
            /\ Len(returned') = Len(constructed) + Len(added)
            /\ ~returnedAlias']_vars

C8_Witness ==
    /\ call.op = "mutate"
    /\ Len(constructed) = 1
    /\ Len(added) = 1
    /\ measurements = constructed \o added
    /\ returned # measurements

\* the mapping in effect resolves neither a depth column nor a top and a
\* base column of the raw table
NoUsableMapping(columns, mapping) ==
    LET names == IF mapping = <<>> THEN DefaultColumnMapping ELSE mapping[1]
    IN /\ names.depth \notin columns
       /\ names.top \notin columns \/ names.base \notin columns

\* C9: add_measurement_table of raw data whose columns the mapping in
\* effect (the given one, the default one when none is given) does not
\* resolve raises ConfigurationError and leaves the stored list unchanged.
C9_FailedAddChangesNothing ==
    [][(/\ call'.op = "add"
        /\ call'.isDataFrame
        /\ NoUsableMapping(call'.columns, call'.mapping)) =>
            /\ raised' = "ConfigurationError"
            /\ measurements' = measurements
            /\ added' = added]_vars

C9_Witness ==
    /\ call.op = "add"
    /\ call.isDataFrame
    /\ call.mapping = <<>>
    /\ raised = "ConfigurationError"
    /\ measurements # <<>>

----------------------------------------------------------------------------
(* Properties of the integration of one hole (specification HoleSpec) *)

\* the rows of the survey with depth, dip and azimuth all present
CompleteIdx ==
    {i \in 1..Len(survey) :
        /\ survey[i].depth # Missing
        /\ survey[i].dip # Missing
        /\ survey[i].azimuth # Missing}

\* the collection of the one hole with the survey as its one distance table
OneHoleCollars ==
    <<[hole_index |-> 0, x |-> collar.x, y |-> collar.y, z |-> collar.z]>>
OneHoleTable ==
    [kind |-> "DistanceTable",
     rows |-> [i \in 1..Len(survey) |->
                  [hole_index |-> 0, depth |-> survey[i].depth,
                   dip |-> survey[i].dip, azimuth |-> survey[i].azimuth]]]

\* C4: a hole whose complete stations all have dip 0 has the box
\* [x, x, y, y, z - max(depth), z] of its collar (x, y, z), whatever the
\* azimuths and the number of stations.
C4_VerticalHole ==
    (/\ bbox # <<>>
     /\ CompleteIdx # {}
     /\ \A i \in CompleteIdx : survey[i].dip = Some(0)) =>
        LET deepest == SetMax({Val(survey[i].depth) : i \in CompleteIdx})
            expected == <<collar.x, collar.x, collar.y, collar.y,
                          collar.z - deepest, collar.z>>
        IN /\ get_bounding_box(OneHoleCollars, <<OneHoleTable>>)
                  = Returns(expected)
           /\ combine_bounding_boxes(bbox).value = expected

C4_Witness ==
    /\ collar = [x |-> 0, y |-> 0, z |-> 100]
    /\ survey = <<[depth |-> Some(5), dip |-> Some(0), azimuth |-> Some(0)],
                  [depth |-> Some(15), dip |-> Some(0), azimuth |-> Some(0)]>>
    /\ bbox # <<>>
    /\ combine_bounding_boxes(bbox).value = <<0, 0, 0, 0, 85, 100>>

\* C5: one station at depth d > 0 with dip 90 and azimuth 0 moves the hole
\* by d along Y only: ymin = y, ymax = y + d, and x and z stay at the collar.
C5_HorizontalNorth ==
    (/\ bbox # <<>>
     /\ Cardinality(CompleteIdx) = 1
     /\ \A i \in CompleteIdx :
           /\ survey[i].dip = Some(90)
           /\ survey[i].azimuth = Some(0)
           /\ Val(survey[i].depth) > 0) =>
        LET d == Val(survey[CHOOSE i \in CompleteIdx : TRUE].depth)
        IN bbox[1] = [xmin |-> collar.x, xmax |-> collar.x,
                      ymin |-> collar.y, ymax |-> collar.y + d,
                      zmin |-> collar.z, zmax |-> collar.z]

C5_Witness ==
    /\ survey = <<[depth |-> Some(10), dip |-> Some(90), azimuth |-> Some(0)]>>
    /\ collar = [x |-> 20, y |-> -5, z |-> 0]
    /\ bbox = <<[xmin |-> 20, xmax |-> 20, ymin |-> -5, ymax |-> 5,
                 zmin |-> 0, zmax |-> 0]>>

RECURSIVE KeepIdx(_, _)
\* the rows of s whose index is in idx, in order
KeepIdx(s, idx) ==
    IF s = <<>> THEN <<>>
    ELSE LET n == Len(s)
             before == KeepIdx(SubSeq(s, 1, n - 1), idx)
         IN IF n \in idx THEN Append(before, s[n]) ELSE before

\* C7: the box of a survey with incomplete rows is the box of the same
\* survey with exactly those rows removed; the complete rows all count and
\* a missing value is not read as zero.
C7_IncompleteRowsDropped ==
    bbox # <<>> =>
        bbox[1] = compute_hole_bounding_box(collar.x, collar.y, collar.z,
                                            KeepIdx(survey, CompleteIdx))

C7_Witness ==
    /\ bbox # <<>>
    /\ Len(survey) = 2
    /\ survey[1].dip = Missing
    /\ survey[1].depth = Some(15)
    /\ 2 \in CompleteIdx
    /\ survey[2].depth = Some(5)
    /\ survey[2].dip = Some(0)
    /\ bbox[1].zmin = collar.z - 5

----------------------------------------------------------------------------
(* Properties of the combination (specification CombineSpec) *)

\* the 6 values of a combination read as a box again
AsBox(v) ==
    [xmin |-> v[1], xmax |-> v[2], ymin |-> v[3], ymax |-> v[4],
     zmin |-> v[5], zmax |-> v[6]]

RECURSIVE SplitAt(_, _)
\* the consecutive groups of s that end at the positions in cuts
SplitAt(s, cuts) ==
    IF cuts = {} THEN <<s>>
    ELSE LET c == SetMax(cuts)
         IN Append(SplitAt(SubSeq(s, 1, c), cuts \ {c}),
                   SubSeq(s, c + 1, Len(s)))

\* combine every group, then combine the results
CombineGrouped(groups) ==
    combine_bounding_boxes(
        [g \in 1..Len(groups) |->
            AsBox(combine_bounding_boxes(groups[g]).value)])

\* the elementwise minimum of the minima and maximum of the maxima
Envelope(bs) ==
    LET I == 1..Len(bs)
    IN <<SetMin({bs[i].xmin : i \in I}), SetMax({bs[i].xmax : i \in I}),
         SetMin({bs[i].ymin : i \in I}), SetMax({bs[i].ymax : i \in I}),
         SetMin({bs[i].zmin : i \in I}), SetMax({bs[i].zmax : i \in I})>>

\* C6: for a non-empty list of boxes, every permutation of the list and
\* every grouping of every permutation combine to the same 6 values, the
\* elementwise min of the minima and max of the maxima.
C6_CombineOrderIndependent ==
    (combined # <<>> /\ bboxes # <<>>) =>
        LET n == Len(bboxes)
        IN /\ combined[1] = Returns(Envelope(bboxes))
           /\ \A p \in Permutations(1..n) :
                 LET shuffled == [i \in 1..n |-> bboxes[p[i]]]
                 IN /\ combine_bounding_boxes(shuffled) = combined[1]
                    /\ \A cuts \in SUBSET (1..(n - 1)) :
                          CombineGrouped(SplitAt(shuffled, cuts)) = combined[1]

C6_Witness ==
    /\ Len(bboxes) = 3
    /\ bboxes[1].xmin = 1
    /\ bboxes[2].xmin = 0
    /\ bboxes[3].zmax = 2
    /\ bboxes[1] # bboxes[3]
    /\ combined # <<>>
    /\ combined[1].raised = "none"
    /\ combined[1].value[1] = 0

----------------------------------------------------------------------------
(* Properties of the attribute factory (specification AttrSpec) *)

NumericDtypes == {"float64", "float32", "int64"}

AttachedNanValues(s) == IF s.nan_values = <<>> THEN <<>> ELSE s.nan_values[1]

\* one more table persisted, of one column, and a continuous attribute that
\* refers to it and lists the attached markers
CreatedContinuous ==
    /\ Len(saved') = Len(saved) + 1
    /\ SubSeq(saved', 1, Len(saved)) = saved
    /\ Len(saved'[Len(saved')].columns) = 1
    /\ saved'[Len(saved')].data = series'[1].column.data
    /\ attribute'[1].kind = "ContinuousAttribute"
    /\ attribute'[1].name = series'[1].name
    /\ attribute'[1].key = series'[1].name
    /\ attribute'[1].nan_description = AttachedNanValues(series'[1].column)
    /\ attribute'[1].values.data = Len(saved')
    /\ attribute'[1].values.width = 1

CreatedNothing ==
    /\ saved' = saved
    /\ attribute'[1].kind = "None"

\* C10 as stated: every numeric column gets one persisted single-column
\* table and a continuous attribute with its markers; every non-numeric
\* column gets no attribute and nothing is persisted.
C10_NumericColumnsPersisted ==
    [][IF series'[1].column.dtype \in NumericDtypes
       THEN CreatedContinuous ELSE CreatedNothing]_vars

\* C10 amended: every floating point column gets one persisted
\* single-column table and a continuous attribute with its markers; every
\* other column, an integer one included, gets no attribute and nothing is
\* persisted.
C10_FloatColumnsPersisted ==
    [][IF series'[1].column.dtype \in {"float64", "float32"}
       THEN CreatedContinuous ELSE CreatedNothing]_vars

C10_Witness ==
    /\ series # <<>>
    /\ series[1].column.dtype = "int64"
    /\ attribute = <<[kind |-> "None"]>>
    /\ Len(saved) = 1

----------------------------------------------------------------------------
(* Row order of the survey (specification HoleSpec) *)

\* the survey with its rows in the order p
Permuted(p) == [i \in 1..Len(survey) |-> survey[p[i]]]

\* no two complete rows of the survey have the same depth
DistinctDepths ==
    \A i, j \in CompleteIdx :
        survey[i].depth = survey[j].depth => i = j

\* the complete row with exactly k - 1 shallower complete rows
StationAt(k) ==
    survey[CHOOSE i \in CompleteIdx :
              Cardinality({j \in CompleteIdx :
                              Val(survey[j].depth) < Val(survey[i].depth)})
                  = k - 1]

RECURSIVE StationPosition(_)
\* the position after the k shallowest stations: straight segments from the
\* collar at depth 0, each as long as the difference of consecutive depths
StationPosition(k) ==
    IF k = 0 THEN [x |-> collar.x, y |-> collar.y, z |-> collar.z]
    ELSE LET from == StationPosition(k - 1)
             st == StationAt(k)
             len == Val(st.depth)
                       - (IF k = 1 THEN 0 ELSE Val(StationAt(k - 1).depth))
             dip == Val(st.dip)
             az == Val(st.azimuth)
         IN [x |-> from.x + len * SinDeg(dip) * SinDeg(az),
             y |-> from.y + len * SinDeg(dip) * CosDeg(az),
             z |-> from.z - len * CosDeg(dip)]

\* the box around the collar and the stations taken by ascending depth
SortedTrajectoryBox ==
    LET pts == {StationPosition(k) : k \in 0..Cardinality(CompleteIdx)}
    IN [xmin |-> SetMin({q.x : q \in pts}), xmax |-> SetMax({q.x : q \in pts}),
        ymin |-> SetMin({q.y : q \in pts}), ymax |-> SetMax({q.y : q \in pts}),
        zmin |-> SetMin({q.z : q \in pts}), zmax |-> SetMax({q.z : q \in pts})]

\* C11 as stated: every permutation of the rows of a hole gives the same
\* box as the rows given.
C11_AnyRowOrderSameBox ==
    bbox # <<>> =>
        \A p \in Permutations(1..Len(survey)) :
            compute_hole_bounding_box(collar.x, collar.y, collar.z,
                                      Permuted(p)) = bbox[1]

\* C11 amended: when the complete rows of a hole have distinct depths, every
\* permutation of its rows gives the same box, the box of the rows taken by
\* ascending depth with steps that are the differences of consecutive
\* depths, the first measured from depth 0 at the collar.
C11_DistinctDepthsAnyRowOrderSameBox ==
    (bbox # <<>> /\ DistinctDepths) =>
        /\ bbox[1] = SortedTrajectoryBox
        /\ \A p \in Permutations(1..Len(survey)) :
              compute_hole_bounding_box(collar.x, collar.y, collar.z,
                                        Permuted(p)) = bbox[1]

C11_Witness ==
    /\ collar = [x |-> 0, y |-> 0, z |-> 100]
    /\ survey = <<[depth |-> Some(15), dip |-> Some(90), azimuth |-> Some(0)],
                  [depth |-> Some(5), dip |-> Some(0), azimuth |-> Some(0)]>>
    /\ DistinctDepths
    /\ bbox = <<[xmin |-> 0, xmax |-> 0, ymin |-> 0, ymax |-> 10,
                 zmin |-> 95, zmax |-> 100]>>

====
